---- MODULE Spec2Model ----
(***************************************************************************)
(* walktree: WalkTreeBuilder (load / with_map / with_fliter /              *)
(* with_walkdir_mode / walk) and WalkTree (build and the four getters) of  *)
(* src/lib.rs, together with the behaviour of the two crates walk() drives *)
(* (walkdir's IntoIter / FilterEntry and bimap's / indextree's insertion). *)
(***************************************************************************)
EXTENDS Integers, Sequences, FiniteSets, TLC

(* ------------------------------ bounds --------------------------------- *)

\* Number of with_walkdir_mode calls made on one builder.
MaxOpts == 2
\* Number of items (entries or read errors) all directory listings hold together.
MaxFsItems == 2

(* ------------------------------ helpers -------------------------------- *)

SeqUpTo(S, n) == UNION {[1..k -> S] : k \in 0..n}

Last(s) == s[Len(s)]

Front(s) == SubSeq(s, 1, Len(s) - 1)

RECURSIVE Perms(_)
\* All orders in which the elements of a finite set can be enumerated.
Perms(S) ==
    IF S = {} THEN {<<>>}
    ELSE UNION {{<<x>> \o p : p \in Perms(S \ {x})} : x \in S}

Range(s) == {s[i] : i \in 1..Len(s)}

(* ------------------------------- paths --------------------------------- *)

\* Option<T>: None, and Some(x) with its unwrap.
None == <<>>
Some(x) == <<x>>
Unwrap(o) == o[1]

\* The root_dir handed to load(); a path is the sequence of its components.
RootDir == <<"r">>

\* Path::parent: the path without its last component, None for the empty path.
PathParent(p) ==
    IF Len(p) = 0 THEN None ELSE Some(Front(p))

IsPrefix(p, q) == Len(p) <= Len(q) /\ SubSeq(q, 1, Len(p)) = p

(* ------------------------- the file system ----------------------------- *)

\* What read_dir yields for one directory slot: an entry (name, is it a
\* directory) or an io::Error.
DirItem(n, d) == [ok |-> TRUE, name |-> n, dir |-> d]
ErrItem == [ok |-> FALSE, name |-> "", dir |-> FALSE]

\* What a listing of the root directory can hold: a directory a, a file a
\* (the name read again after it was replaced), a file b.
RootItems == {DirItem("a", TRUE), DirItem("a", FALSE), DirItem("b", FALSE)}
\* What a listing of the directory r/a can hold: a file x, a read error.
SubItems == {DirItem("x", FALSE), ErrItem}

\* The states of the file system a walk can meet: the root missing, or a root
\* listing and (when it names the directory a) a listing of r/a.
FileSystems ==
    {[rootOk |-> FALSE, root |-> <<>>, sub |-> <<>>]} \cup
    {[rootOk |-> TRUE, root |-> r, sub |-> s] :
        <<r, s>> \in {rs \in SeqUpTo(RootItems, MaxFsItems) \X SeqUpTo(SubItems, MaxFsItems) :
                        /\ Len(rs[1]) + Len(rs[2]) <= MaxFsItems
                        /\ (rs[2] # <<>> => DirItem("a", TRUE) \in Range(rs[1]))}}

\* walkdir::DirEntry: path(), file_type().is_dir(), depth().
DirEntry(p, d, n) == [path |-> p, dir |-> d, depth |-> n]

\* One item of the walkdir iterator: Ok(DirEntry) or Err(walkdir::Error).
OkRes(e) == [ok |-> TRUE, ent |-> e]
ErrRes == [ok |-> FALSE, ent |-> DirEntry(<<>>, FALSE, 0)]

(* ------------------------ builder configuration ------------------------ *)

\* WalkDirOption: the variant and its usize argument (0 where it has none).
Opt(k, n) == [kind |-> k, n |-> n]

\* The options with_walkdir_mode is called with.
WalkDirOptions ==
    {Opt(k, 0) : k \in {"ContentsFirst", "FollowLinks", "SameFileSystem",
                        "SortBy", "SortByFileName", "SortByKey"}}
    \cup {Opt("MaxDepth", 1), Opt("MaxOpen", 0), Opt("MinDepth", 1), Opt("MinDepth", 2)}

SortKinds == {"SortBy", "SortByFileName", "SortByKey"}

\* usize::MAX, the max_depth of WalkDir::new.
UsizeMax == 2147483647

\* WalkDir::max_open's default.
DefaultMaxOpen == 10

\* WalkDir::new(root_dir): walkdir's default options.
WalkDirNew ==
    [contents_first |-> FALSE, follow_links |-> FALSE, max_depth |-> UsizeMax,
     max_open |-> DefaultMaxOpen, min_depth |-> 0, same_file_system |-> FALSE,
     sorter |-> None]

\* One arm of the match in compile_walkdir: the walkdir setter it calls.
\* min_depth and max_depth clamp against each other, max_open(0) means 1, and
\* each sort setter replaces the sorter.
ApplyOption(w, o) ==
    CASE o.kind = "ContentsFirst" -> [w EXCEPT !.contents_first = TRUE]
      [] o.kind = "FollowLinks" -> [w EXCEPT !.follow_links = TRUE]
      [] o.kind = "MaxDepth" ->
            [w EXCEPT !.max_depth = IF o.n < w.min_depth THEN w.min_depth ELSE o.n]
      [] o.kind = "MaxOpen" -> [w EXCEPT !.max_open = IF o.n = 0 THEN 1 ELSE o.n]
      [] o.kind = "MinDepth" ->
            [w EXCEPT !.min_depth = IF o.n > w.max_depth THEN w.max_depth ELSE o.n]
      [] o.kind = "SameFileSystem" -> [w EXCEPT !.same_file_system = TRUE]
      [] o.kind = "SortBy" -> [w EXCEPT !.sorter = Some("SortBy")]
      [] o.kind = "SortByFileName" -> [w EXCEPT !.sorter = Some("SortByFileName")]
      [] o.kind = "SortByKey" -> [w EXCEPT !.sorter = Some("SortByKey")]

RECURSIVE FoldOptions(_, _)
FoldOptions(w, modes) ==
    IF modes = <<>> THEN w
    ELSE FoldOptions(ApplyOption(w, Head(modes)), Tail(modes))

\* WalkDirModes::compile_walkdir: the fold of the option list over WalkDir::new.
compile_walkdir(modes) == FoldOptions(WalkDirNew, modes)

\* WalkDirModes::check_compability: Ok(()) for every option list.
check_compability(modes) == "Ok"

\* The filter function with_fliter is called with, as fn(&DirEntry) -> bool:
\* it rejects every entry whose file name is a, directory or file.
FilterFns == {"not_a"}

FilterAccepts(f, e) == Last(e.path) # "a"

\* The map function with_map is called with, as fn(DirEntry) -> T: the data
\* it returns for an entry tells the entry's file name and file type.
MapFns == {"describe"}

MapApply(f, e) == [name |-> Last(e.path), is_dir |-> e.dir]

(* --------------------------- walkdir's sort ---------------------------- *)

NameRank(n) == CASE n = "a" -> 1 [] n = "b" -> 2 [] n = "x" -> 3 [] OTHER -> 0

\* The key function of SortByKey, fn(&DirEntry) -> Ordering: directories first.
KeyRank(it) == IF it.dir THEN 0 ELSE 2

\* The comparison walkdir sorts a listing with: errors before entries, and
\* entries by the caller's comparator (file name; the SortBy comparator,
\* reverse file name; the SortByKey key).
ItemLess(sorter, x, y) ==
    IF ~x.ok \/ ~y.ok THEN ~x.ok /\ y.ok
    ELSE CASE sorter = "SortByFileName" -> NameRank(x.name) < NameRank(y.name)
           [] sorter = "SortBy" -> NameRank(x.name) > NameRank(y.name)
           [] sorter = "SortByKey" -> KeyRank(x) < KeyRank(y)

RECURSIVE InsertSorted(_, _, _)
\* x placed after every element that is not greater than it.
InsertSorted(sorter, x, s) ==
    IF s = <<>> THEN <<x>>
    ELSE IF ItemLess(sorter, x, Head(s)) THEN <<x>> \o s
    ELSE <<Head(s)>> \o InsertSorted(sorter, x, Tail(s))

RECURSIVE SortListing(_, _)
\* sort_by of the std library: a stable sort.
SortListing(sorter, s) ==
    IF s = <<>> THEN <<>>
    ELSE InsertSorted(sorter, Last(s), SortListing(sorter, Front(s)))

(* ----------------- walkdir's IntoIter and FilterEntry ------------------ *)

\* The iterator's state while walk() collects it: stack_list (one open
\* listing per directory being read, with that directory's path),
\* deferred_dirs (contents-first), whether the start path is still to be
\* visited, whether the iterator has returned None, and what the collect has
\* seen so far: the items yielded (out) and the entries the filter was called
\* on and rejected.
IterStart ==
    [stack |-> <<>>, deferred |-> <<>>, start |-> TRUE, fin |-> FALSE,
     out |-> <<>>, rejected |-> <<>>]

\* IntoIter::skippable, for an entry at the given depth.
Skippable(w, depth) == depth < w.min_depth \/ depth > w.max_depth

\* IntoIter::pop.
PopDir(st) == [st EXCEPT !.stack = Front(st.stack)]

\* IntoIter::push: read_dir of the entry's path, sorted when a sorter is set.
PushDir(fs, w, st, dent) ==
    LET listing == IF dent.depth = 0 THEN fs.root ELSE fs.sub
        list == IF w.sorter = None THEN listing ELSE SortListing(Unwrap(w.sorter), listing)
    IN [st EXCEPT !.stack = Append(st.stack, [path |-> dent.path, rest |-> list])]

\* An entry the iterator returns. With a filter (filter_entry) the predicate
\* is called on it; a rejected entry is not passed on, and for a rejected
\* directory skip_current_dir pops the top of stack_list when there is one.
Yield(flt, st, dent) ==
    IF flt # None /\ ~FilterAccepts(Unwrap(flt), dent)
    THEN LET r == [st EXCEPT !.rejected = Append(st.rejected, dent)]
         IN IF dent.dir /\ r.stack # <<>> THEN PopDir(r) ELSE r
    ELSE [st EXCEPT !.out = Append(st.out, OkRes(dent))]

\* IntoIter::handle_entry: a directory is pushed; in contents-first mode it is
\* deferred, otherwise the entry is returned unless its depth is skippable.
HandleEntry(fs, w, flt, st, dent) ==
    LET pushed == IF dent.dir THEN PushDir(fs, w, st, dent) ELSE st
    IN IF dent.dir /\ w.contents_first
       THEN [pushed EXCEPT !.deferred = Append(pushed.deferred, dent)]
       ELSE IF Skippable(w, dent.depth) THEN pushed
       ELSE Yield(flt, pushed, dent)

\* One round of IntoIter::next under FilterEntry::next.
IterStep(fs, w, flt, st) ==
    LET depth == Len(st.stack)
        popDeferred == [st EXCEPT !.deferred = Front(st.deferred)]
    IN
    IF st.start THEN
        \* the start path: an error when it cannot be read, else handle_entry
        LET s0 == [st EXCEPT !.start = FALSE]
        IN IF fs.rootOk
           THEN HandleEntry(fs, w, flt, s0, DirEntry(RootDir, TRUE, 0))
           ELSE [s0 EXCEPT !.out = Append(s0.out, ErrRes)]
    ELSE IF st.stack # <<>> THEN
        IF w.contents_first /\ depth < Len(st.deferred)
        THEN \* get_deferred_dir
             IF Skippable(w, depth) THEN popDeferred
             ELSE Yield(flt, popDeferred, Last(st.deferred))
        ELSE IF depth > w.max_depth THEN PopDir(st)
        ELSE LET top == Last(st.stack)
             IN IF top.rest = <<>> THEN PopDir(st)
                ELSE LET it == Head(top.rest)
                         adv == [st EXCEPT !.stack[depth].rest = Tail(top.rest)]
                     IN IF ~it.ok THEN [adv EXCEPT !.out = Append(adv.out, ErrRes)]
                        ELSE HandleEntry(fs, w, flt, adv,
                                         DirEntry(Append(top.path, it.name), it.dir, depth))
    ELSE
        \* the stack is empty: one last deferred directory, or None
        IF w.contents_first /\ 0 < Len(st.deferred)
        THEN IF Skippable(w, 0) THEN [popDeferred EXCEPT !.fin = TRUE]
             ELSE Yield(flt, popDeferred, Last(st.deferred))
        ELSE [st EXCEPT !.fin = TRUE]

RECURSIVE IterRun(_, _, _, _)
\* The iterator driven until it returns None.
IterRun(fs, w, flt, st) ==
    IF st.fin THEN st ELSE IterRun(fs, w, flt, IterStep(fs, w, flt, st))

(* --------------------- the arena and the BiMap -------------------------- *)

\* Arena::new_node: the node is appended with no parent and no children, and
\* its NodeId is its position in the arena.
new_node(arena, data) ==
    Append(arena, [data |-> data, parent |-> None, children |-> <<>>])

\* BiMap::insert: pairs holding the same path or the same NodeId are removed,
\* then the pair is inserted.
BiInsert(map, path, id) ==
    {p \in map : p.path # path /\ p.id # id} \cup {[path |-> path, id |-> id]}

\* BiMap::get_by_left.
get_by_left(map, path) ==
    IF \E p \in map : p.path = path
    THEN Some((CHOOSE p \in map : p.path = path).id) ELSE None

\* BiMap::get_by_right.
get_by_right(map, id) ==
    IF \E p \in map : p.id = id
    THEN Some((CHOOSE p \in map : p.id = id).path) ELSE None

\* NodeId::detach: the node leaves its parent's children.
Detach(arena, c) ==
    LET q == arena[c].parent
    IN IF q = None THEN arena
       ELSE [arena EXCEPT ![Unwrap(q)].children = SelectSeq(@, LAMBDA k : k # c),
                          ![c].parent = None]

\* NodeId::append: new_child is detached and becomes the last child of t.
NodeAppend(arena, t, new_child) ==
    LET d == Detach(arena, new_child)
    IN [d EXCEPT ![t].children = Append(@, new_child), ![new_child].parent = Some(t)]

(* ------------------------------ WalkTree -------------------------------- *)

\* A faulty variant of the loop body of WalkTree::build: receiver and argument
\* of append exchanged, so that the parent is appended to the node.
BuildOneSwapped(arena, map, pair) ==
    LET parent == PathParent(pair.path)
    IN IF parent = None THEN arena
       ELSE LET t == get_by_left(map, Unwrap(parent))
            IN IF t = None THEN arena ELSE NodeAppend(arena, pair.id, Unwrap(t))

\* The body of the loop of WalkTree::build for one (path, node_id) of the map.
BuildOne(arena, map, pair) ==
    LET parent == PathParent(pair.path)
    IN IF parent = None THEN arena
       ELSE LET t == get_by_left(map, Unwrap(parent))
            IN IF t = None THEN arena ELSE NodeAppend(arena, Unwrap(t), pair.id)

RECURSIVE BuildLoop(_, _, _)
BuildLoop(arena, map, order) ==
    IF order = <<>> THEN arena
    ELSE BuildLoop(BuildOne(arena, map, Head(order)), map, Tail(order))

\* A faulty variant of WalkTree::build: a single pass that links a node only
\* when its parent's pair was met earlier in the iteration.
BuildSeenOnly(arena, map, order) ==
    LET F[i \in 0..Len(order)] ==
            IF i = 0 THEN arena
            ELSE BuildOne(F[i - 1], {order[j] : j \in 1..(i - 1)}, order[i])
    IN [arena |-> F[Len(order)], map |-> map]

\* WalkTree::build: map.iter() visits the pairs in the order the hash map
\* holds them, here the sequence order.
build(arena, map, order) ==
    [arena |-> BuildLoop(arena, map, order), map |-> map]

get_path_by_node_id(t, node_id) == get_by_right(t.map, node_id)

get_node_id_by_path(t, path) == get_by_left(t.map, path)

get_item_by_node_id(t, node_id) ==
    IF node_id \in 1..Len(t.arena) THEN Some(t.arena[node_id].data) ELSE None

get_item_by_path(t, path) ==
    LET node_id == get_node_id_by_path(t, path)
    IN IF node_id # None THEN get_item_by_node_id(t, Unwrap(node_id)) ELSE None

(* --------------------------- WalkTreeBuilder ---------------------------- *)

\* apply_fiter_fn: the walkdir iterator (under filter_entry when a filter is
\* set) run to its end; filter_map(|x| x.ok()) keeps the Ok items.
OkEntries(items) ==
    LET oks == SelectSeq(items, LAMBDA x : x.ok)
    IN [i \in 1..Len(oks) |-> oks[i].ent]

\* apply_map_fn: one WalkTreeNode per entry, in order.
apply_map_fn(f, entries) ==
    [i \in 1..Len(entries) |->
        [path |-> entries[i].path, data |-> MapApply(f, entries[i])]]

RECURSIVE CollectNodes(_, _, _)
\* The map/collect of walk: each node is allocated in the arena and its
\* (path, NodeId) pair inserted into the BiMap, in order.
CollectNodes(nodes, arena, map) ==
    IF nodes = <<>> THEN [arena |-> arena, map |-> map]
    ELSE CollectNodes(Tail(nodes), new_node(arena, Head(nodes).data),
                      BiInsert(map, Head(nodes).path, Len(arena) + 1))

(* ------------------------------ the state ------------------------------- *)

VARIABLES
    fn_filter,      \* WalkTreeBuilder.fn_filter
    fn_map,         \* WalkTreeBuilder.fn_map
    walkdir_modes,  \* WalkTreeBuilder.walkdir_modes
    phase,          \* "builder" until walk() consumes the builder, then "walked"
    result,         \* what walk() came to: None, "Ok", "Err" or "panic"
    arena,          \* WalkTree.arena of the returned tree
    map,            \* WalkTree.map of the returned tree
    items,          \* the items the walkdir iterator yielded to walk()
    rejected,       \* the entries the filter was called on and rejected
    mapped,         \* the entries fn_map was called on, in call order
    earlier,        \* the tree an earlier walk() returned for the same items
    driven          \* whether walk() has iterated the walkdir iterator

vars == <<fn_filter, fn_map, walkdir_modes, phase, result, arena, map, items,
          rejected, mapped, earlier, driven>>

\* WalkTreeBuilder::load(root_dir).
Init ==
    /\ fn_filter = None
    /\ fn_map = None
    /\ walkdir_modes = <<>>
    /\ phase = "builder"
    /\ result = None
    /\ arena = <<>>
    /\ map = {}
    /\ items = <<>>
    /\ rejected = <<>>
    /\ mapped = <<>>
    /\ earlier = None
    /\ driven = FALSE

with_map ==
    /\ phase = "builder"
    /\ \E f \in MapFns : fn_map' = Some(f)
    /\ UNCHANGED <<fn_filter, walkdir_modes, phase, result, arena, map, items,
                   rejected, mapped, earlier, driven>>

with_fliter ==
    /\ phase = "builder"
    /\ \E f \in FilterFns : fn_filter' = Some(f)
    /\ UNCHANGED <<fn_map, walkdir_modes, phase, result, arena, map, items,
                   rejected, mapped, earlier, driven>>

with_walkdir_mode ==
    /\ phase = "builder"
    /\ Len(walkdir_modes) < MaxOpts
    /\ \E mode \in WalkDirOptions : walkdir_modes' = Append(walkdir_modes, mode)
    /\ UNCHANGED <<fn_filter, fn_map, phase, result, arena, map, items,
                   rejected, mapped, earlier, driven>>

\* walk() from the collected iterator items on: apply_map_fn (fn_map.unwrap()
\* panics at the first entry when no map function is set), the arena and the
\* BiMap, and build over the pairs in the order the hash map iterates them.
Assemble(its) ==
    LET entries == OkEntries(its)
    IN IF fn_map = None /\ entries # <<>>
       THEN /\ result' = Some("panic")
            /\ mapped' = <<>>
            /\ arena' = <<>>
            /\ map' = {}
       ELSE LET nodes == IF entries = <<>> THEN <<>>
                         ELSE apply_map_fn(Unwrap(fn_map), entries)
                am == CollectNodes(nodes, <<>>, {})
            IN \E order \in Perms(am.map) :
                 LET t == build(am.arena, am.map, order)
                 IN /\ result' = Some("Ok")
                    /\ mapped' = entries
                    /\ arena' = t.arena
                    /\ map' = t.map

\* WalkTreeBuilder::walk, the provider reading some state of the file system.
walk ==
    /\ phase = "builder"
    /\ phase' = "walked"
    /\ UNCHANGED <<fn_filter, fn_map, walkdir_modes, earlier>>
    /\ IF check_compability(walkdir_modes) # "Ok"
       THEN /\ result' = Some("Err")
            /\ UNCHANGED <<arena, map, items, rejected, mapped, driven>>
       ELSE \E fs \in FileSystems :
              LET w == compile_walkdir(walkdir_modes)
                  it == IterRun(fs, w, fn_filter, IterStart)
              IN /\ driven' = TRUE
                 /\ items' = it.out
                 /\ rejected' = it.rejected
                 /\ Assemble(it.out)

\* walk() on an equal builder whose provider yields the same items again; the
\* tree returned before is kept for comparison.
walk_again ==
    /\ phase = "walked"
    /\ result = Some("Ok")
    /\ earlier = None
    /\ earlier' = Some([arena |-> arena, map |-> map])
    /\ Assemble(items)
    /\ UNCHANGED <<fn_filter, fn_map, walkdir_modes, phase, items, rejected, driven>>

Next == with_map \/ with_fliter \/ with_walkdir_mode \/ walk \/ walk_again

Spec == Init /\ [][Next]_vars

(* ------------------------------ the claims ------------------------------ *)

\* The tree walk() returned, and the entries it was assembled from.
Tree == [arena |-> arena, map |-> map]
Returned == phase = "walked" /\ result = Some("Ok")
Entries == OkEntries(items)
IndexPaths(t) == {pr.path : pr \in t.map}
Children(t, id) == Range(t.arena[id].children)

\* C1: in every tree walk() returns, the index is a bijection: looking a pair
\* up by its path gives its node id and by its node id gives its path, a path
\* has at most one node id, and every node id allocated in the arena has
\* exactly one path.
C1_Bijection ==
    Returned =>
        /\ \A pr \in map :
              /\ get_node_id_by_path(Tree, pr.path) = Some(pr.id)
              /\ get_path_by_node_id(Tree, pr.id) = Some(pr.path)
        /\ \A p1, p2 \in map : p1.path = p2.path => p1.id = p2.id
        /\ \A id \in 1..Len(arena) : Cardinality({pr \in map : pr.id = id}) = 1

\* C2: in every tree walk() returns, whatever the order of the entries, node
\* B is a child of node A exactly when the parent directory of B's path is
\* A's path; a node whose parent directory is in the index has that
\* directory's node as its parent, and a node whose parent directory is not
\* in the index has no parent.
C2_ParentEdges ==
    Returned =>
        \A b \in map :
            LET pp == PathParent(b.path)
                t == IF pp = None THEN None
                     ELSE get_node_id_by_path(Tree, Unwrap(pp))
            IN /\ arena[b.id].parent = t
               /\ \A a \in map :
                     IF pp = Some(a.path)
                     THEN /\ arena[b.id].parent = Some(a.id)
                          /\ Len(SelectSeq(arena[a.id].children, LAMBDA k : k = b.id)) = 1
                     ELSE /\ arena[b.id].parent # Some(a.id)
                          /\ b.id \notin Children(Tree, a.id)

\* C2's case: a returned tree in which a child was allocated before its
\* parent (contents before parent) and is linked to it, and in which a node
\* below the root directory has no parent because its directory is missing.
C2_Witness ==
    /\ Returned
    /\ \E a, b \in map :
          b.id < a.id /\ PathParent(b.path) = Some(a.path)
          /\ arena[b.id].parent = Some(a.id)
    /\ \E c \in map :
          /\ Len(c.path) > 1
          /\ get_node_id_by_path(Tree, Front(c.path)) = None
          /\ arena[c.id].parent = None

\* C3: in every tree walk() returns, the children of each node are in the
\* order in which the provider produced their entries (node ids are
\* allocated in that order).
C3_SiblingOrder ==
    Returned =>
        \A id \in 1..Len(arena) :
            \A i, j \in 1..Len(arena[id].children) :
                i < j => arena[id].children[i] < arena[id].children[j]

HasDuplicatePath(entries) ==
    \E i, j \in 1..Len(entries) : i # j /\ entries[i].path = entries[j].path

\* C4: when the provider yields two entries with the same path (to a builder
\* with a map function, so that walk() gets to assemble them), walk() fails
\* with an error (DuplicatePathError) and returns no tree.
C4_DuplicatePathError ==
    (phase = "walked" /\ fn_map # None /\ HasDuplicatePath(Entries))
        => result = Some("Err")

MoreThanOneSort(modes) ==
    \E i, j \in 1..Len(modes) :
        i # j /\ modes[i].kind \in SortKinds /\ modes[j].kind \in SortKinds

MinExceedsMax(modes) ==
    \E i, j \in 1..Len(modes) :
        modes[i].kind = "MinDepth" /\ modes[j].kind = "MaxDepth" /\ modes[i].n > modes[j].n

\* C5: when the option list holds more than one sort discipline or a MinDepth
\* greater than a MaxDepth, walk() fails with an error (ConfigurationError)
\* and the provider is never driven.
C5_ConfigurationError ==
    (phase = "walked" /\ (MoreThanOneSort(walkdir_modes) \/ MinExceedsMax(walkdir_modes)))
        => (result = Some("Err") /\ ~driven)

\* C6: when with_map was never called, walk() fails with a configuration
\* error for every provider output, decided before the provider is driven,
\* and never panics while mapping an entry.
C6_MissingMapper ==
    (phase = "walked" /\ fn_map = None) => (result = Some("Err") /\ ~driven)

\* C7: when the provider yields an error for an entry it tried to visit,
\* walk() reports it as an error (TraversalError) and returns no tree.
C7_TraversalError ==
    (phase = "walked" /\ \E i \in 1..Len(items) : ~items[i].ok) => result = Some("Err")

\* C8: when the filter rejects a directory entry, neither its path nor any
\* path below it is in the index of the returned tree; when it rejects a file
\* entry, that entry's path is not in the index.
C8_Prune ==
    Returned =>
        \A i \in 1..Len(rejected) :
            IF rejected[i].dir
            THEN \A pr \in map : ~IsPrefix(rejected[i].path, pr.path)
            ELSE rejected[i].path \notin IndexPaths(Tree)

\* What two trees are compared by: the paths, the parent-child edges between
\* paths, and the data at each path.
Content(t) ==
    [paths |-> IndexPaths(t),
     edges |-> {<<a.path, b.path>> : <<a, b>> \in
                    {ab \in t.map \X t.map : ab[2].id \in Children(t, ab[1].id)}},
     data |-> {<<pr.path, t.arena[pr.id].data>> : pr \in t.map}]

\* C9: two runs of walk() on the same provider output return trees with the
\* same paths, the same parent-child edges between paths and the same data
\* at each path.
C9_SameContent ==
    (Returned /\ earlier # None) => Content(Unwrap(earlier)) = Content(Tree)

\* C9's case: a second tree was built from the same items, it has edges, and
\* the two trees are not equal (their sibling orders differ).
C9_Witness ==
    /\ Returned
    /\ earlier # None
    /\ Content(Tree).edges # {}
    /\ Unwrap(earlier) # Tree

\* C10: after a successful walk() the index holds exactly the paths of the
\* entries that passed the filter, the map function was called once on each
\* of them in traversal order and on no rejected entry, and for each of them
\* the item found by path is the item of the node found by path and is the
\* value the map function returned for that entry.
C10_IndexAndData ==
    Returned =>
        /\ IndexPaths(Tree) = {Entries[i].path : i \in 1..Len(Entries)}
        /\ mapped = Entries
        /\ \A i \in 1..Len(rejected) : rejected[i] \notin Range(mapped)
        /\ \A i \in 1..Len(Entries) :
              LET e == Entries[i]
                  id == get_node_id_by_path(Tree, e.path)
              IN /\ id # None
                 /\ get_item_by_path(Tree, e.path) = get_item_by_node_id(Tree, Unwrap(id))
                 /\ (fn_map # None =>
                        get_item_by_path(Tree, e.path) = Some(MapApply(Unwrap(fn_map), e)))

====
